---- MODULE Spec2Model ----
(***************************************************************************)
(* Model of rodio's audio engine (src/engine.rs): the process-wide ENGINE, *)
(* its end_points registry of weak mixer handles, Engine::start, new_voice *)
(* with its format fold, and the buffer-filling closure run by the         *)
(* background thread.                                                      *)
(***************************************************************************)
EXTENDS Integers, Sequences, FiniteSets, TLC

\* ------------------------------------------------------------------ bounds
NCalls == 2          \* number of play_raw calls (threads) in the model
BufLen == 2          \* number of slots of a device buffer
MaxFormats == 3      \* longest supported-format list given to the fold

Calls == 1..NCalls
Endpoints == {"ep1", "ep2", "ep3"}

\* ----------------------------------------------------------------- formats
F32 == "F32"
I16 == "I16"
U16 == "U16"
SampleFormat == {F32, I16, U16}
SamplesRates == {22050, 44100, 48000}
ChannelCounts == {1, 2}

Format == [data_type : SampleFormat, samples_rate : SamplesRates, channels : ChannelCounts]

\* Option<Format>::None of the fold's accumulator
NoFormat == [data_type |-> "None", samples_rate |-> 0, channels |-> 0]

Fmt(t, r, ch) == [data_type |-> t, samples_rate |-> r, channels |-> ch]

\* the closure given to fold (f1 is the accumulator, f2 the next candidate)
FoldFn(f1, f2) ==
    IF f1 = NoFormat THEN f2
    ELSE IF f2.data_type = F32 /\ f1.data_type # F32 THEN f2
    ELSE IF f1.samples_rate < 44100 THEN f2
    ELSE IF f2.channels = 2 /\ f1.channels # 2 THEN f2
    ELSE f1

RECURSIVE FoldFrom(_, _)
FoldFrom(acc0, list) ==
    IF list = <<>> THEN acc0
    ELSE FoldFrom(FoldFn(acc0, Head(list)), Tail(list))

\* supported_formats().fold(None, ...) : the Option before .expect
SelectFormat(list) == FoldFrom(NoFormat, list)

\* ------------------------------------------------------------------ samples
\* An f32 sample is kept as its numerator over SampleDen (1 is 0.25).
SampleDen == 4

\* samples produced by the source of call c
SourceSamples(c) == IF c % 2 = 1 THEN <<1, -1>> ELSE <<1, 1>>

\* Sample::to_u16 of an f32: (((s + 1.0) * 0.5) * u16::MAX).round()
to_u16(s) == ((s + SampleDen) * 65535 + SampleDen) \div (2 * SampleDen)

\* Sample::to_i16 of an f32: s * i16::MAX for s >= 0, -s * i16::MIN below, truncated
to_i16(s) == IF s >= 0 THEN (s * 32767) \div SampleDen
             ELSE -(((-s) * 32768) \div SampleDen)

\* variant: the U16 and I16 arms use each other's conversion
SlotValueSwapped(enc, pulled) ==
    IF enc = U16 THEN (IF pulled = <<>> THEN 0 ELSE to_i16(pulled[1]))
    ELSE IF enc = I16 THEN (IF pulled = <<>> THEN 0 ELSE to_u16(pulled[1]))
    ELSE (IF pulled = <<>> THEN 0 ELSE pulled[1])

\* what the closure writes in a slot of encoding enc for the Option it pulled
\* (<<>> is None, <<s>> is Some(s))
SlotValue(enc, pulled) ==
    IF enc = U16 THEN (IF pulled = <<>> THEN 0 ELSE to_u16(pulled[1]))
    ELSE IF enc = I16 THEN (IF pulled = <<>> THEN 0 ELSE to_i16(pulled[1]))
    ELSE (IF pulled = <<>> THEN 0 ELSE pulled[1])

\* ------------------------------------------------------------------- state
VARIABLES
    thread,          \* background thread: "unspawned", "failed", "spawned", "rt", "normal"
    engine,          \* lazy_static ENGINE: "uninit" or "ready"
    lock,            \* holder of the end_points mutex, 0 when free
    poisoned,        \* the mutex was unlocked by a panic
    end_points,      \* endpoint name -> session id of the Weak stored, 0 when the key is absent
    sessions,        \* sequence of the mixers/voices created so far
    pc,              \* position of each play_raw call
    endpoint,        \* endpoint of each call
    mixer,           \* local `mixer` of each call (session id, 0 when unset)
    voice_to_start,  \* local `voice_to_start` of each call (session id, 0 for None)
    format,          \* local `format` of new_voice of each call
    taken,           \* number of samples pulled from each call's source
    cb,              \* the buffer-ready callback being run by the events loop
    supported,       \* fold: the list of supported formats
    acc,             \* fold: the accumulator
    folded,          \* fold: number of candidates consumed
    fold_pc          \* fold: "idle", "fold", "done", "panicked"

engineVars == <<thread, engine, lock, poisoned, end_points, sessions, pc, endpoint,
                mixer, voice_to_start, format, taken, cb>>
foldVars == <<supported, acc, folded, fold_pc>>
vars == <<thread, engine, lock, poisoned, end_points, sessions, pc, endpoint,
          mixer, voice_to_start, format, taken, cb, supported, acc, folded, fold_pc>>

NoCb == [sess |-> 0, enc |-> "None", len |-> 0, out |-> <<>>, pulls |-> <<>>, srcs |-> <<>>]

\* the formats each endpoint of the engine specification supports
DeviceFormats(e) ==
    IF e = "ep1" THEN <<Fmt(U16, 44100, 2)>>
    ELSE IF e = "ep2" THEN <<Fmt(I16, 22050, 1), Fmt(I16, 44100, 2)>>
    ELSE <<Fmt(F32, 48000, 2), Fmt(I16, 44100, 2)>>

\* what supported_formats() may yield for endpoint e: its formats, or none at all
DeviceLists(e) == {<<>>, DeviceFormats(e)}

Sessions == 1..Len(sessions)

\* variant: upgrade succeeds on an entry whose session was destroyed
UpgradeStale(s) == TRUE

\* Weak::upgrade of the entry stored for session s succeeds
Upgrade(s) == sessions[s].strong > 0

\* a strong Arc to session s is dropped; the mixer is destroyed with the last one
DropArc(ss, s) ==
    [ss EXCEPT ![s].strong = @ - 1, ![s].dropped = (ss[s].strong = 1)]

EngineInit ==
    /\ thread = "unspawned"
    /\ engine = "uninit"
    /\ lock = 0
    /\ poisoned = FALSE
    /\ end_points = [e \in Endpoints |-> 0]
    /\ sessions = <<>>
    /\ pc = [c \in Calls |-> "idle"]
    /\ endpoint = [c \in Calls |-> "ep1"]
    /\ mixer = [c \in Calls |-> 0]
    /\ voice_to_start = [c \in Calls |-> 0]
    /\ format = [c \in Calls |-> NoFormat]
    /\ taken = [c \in Calls |-> 0]
    /\ cb = NoCb

FoldIdle ==
    /\ supported = <<>>
    /\ acc = NoFormat
    /\ folded = 0
    /\ fold_pc = "idle"

Init == EngineInit /\ FoldIdle


\* --------------------------------------------------------------- play_raw
\* variant: the result of spawn is unwrapped instead of dropped with .ok()
play_rawUnwrap(c, e) ==
    /\ pc[c] = "idle"
    /\ endpoint' = [endpoint EXCEPT ![c] = e]
    /\ IF engine = "uninit"
       THEN /\ engine' = "ready"
            /\ thread' \in {"spawned", "failed"}
            /\ pc' = [pc EXCEPT ![c] = IF thread' = "failed" THEN "panicked" ELSE "lock"]
       ELSE /\ pc' = [pc EXCEPT ![c] = "lock"]
            /\ UNCHANGED <<engine, thread>>
    /\ UNCHANGED <<lock, poisoned, end_points, sessions, mixer, voice_to_start, format, taken, cb>>
    /\ UNCHANGED foldVars

\* play_raw: first use initialises ENGINE (spawning the thread may fail), then start
play_raw(c, e) ==
    /\ pc[c] = "idle"
    /\ endpoint' = [endpoint EXCEPT ![c] = e]
    /\ pc' = [pc EXCEPT ![c] = "lock"]
    /\ IF engine = "uninit"
       THEN /\ engine' = "ready"
            /\ thread' \in {"spawned", "failed"}
       ELSE UNCHANGED <<engine, thread>>
    /\ UNCHANGED <<lock, poisoned, end_points, sessions, mixer, voice_to_start, format, taken, cb>>
    /\ UNCHANGED foldVars

\* the thread's first step: max_thread_priority() succeeds or prints, then events_loop.run()
max_thread_priority ==
    /\ thread = "spawned"
    /\ thread' \in {"rt", "normal"}
    /\ UNCHANGED <<engine, lock, poisoned, end_points, sessions, pc, endpoint, mixer,
                   voice_to_start, format, taken, cb>>
    /\ UNCHANGED foldVars

\* variant: lock() does not wait for the holder
LockNoWait == TRUE

\* the mutex can be taken
LockFree == lock = 0

\* self.end_points.lock().unwrap()
Lock(c) ==
    /\ pc[c] = "lock"
    /\ LockFree
    /\ IF poisoned
       THEN /\ pc' = [pc EXCEPT ![c] = "panicked"]
            /\ UNCHANGED lock
       ELSE /\ pc' = [pc EXCEPT ![c] = "entry"]
            /\ lock' = c
    /\ UNCHANGED <<thread, engine, poisoned, end_points, sessions, endpoint, mixer,
                   voice_to_start, format, taken, cb>>
    /\ UNCHANGED foldVars

\* variant: the reuse branch leaves the block without releasing the guard
EntryKeepGuard(c) ==
    /\ pc[c] = "entry"
    /\ LET s == end_points[endpoint[c]] IN
       IF s # 0 /\ Upgrade(s)
       THEN /\ mixer' = [mixer EXCEPT ![c] = s]
            /\ sessions' = [sessions EXCEPT ![s].strong = @ + 1]
            /\ pc' = [pc EXCEPT ![c] = "add"]
       ELSE /\ pc' = [pc EXCEPT ![c] = "new_voice"]
            /\ UNCHANGED <<mixer, sessions>>
    /\ UNCHANGED <<thread, engine, lock, poisoned, end_points, endpoint,
                   voice_to_start, format, taken, cb>>
    /\ UNCHANGED foldVars

\* match end_points.entry(endpoint.name()): Vacant, Occupied that upgrades, Occupied that does not
Entry(c) ==
    /\ pc[c] = "entry"
    /\ LET s == end_points[endpoint[c]] IN
       IF s # 0 /\ Upgrade(s)
       THEN /\ mixer' = [mixer EXCEPT ![c] = s]
            /\ sessions' = [sessions EXCEPT ![s].strong = @ + 1]
            /\ pc' = [pc EXCEPT ![c] = "unlock"]
       ELSE /\ pc' = [pc EXCEPT ![c] = "new_voice"]
            /\ UNCHANGED <<mixer, sessions>>
    /\ UNCHANGED <<thread, engine, lock, poisoned, end_points, endpoint,
                   voice_to_start, format, taken, cb>>
    /\ UNCHANGED foldVars

\* a panic inside the critical section unwinds through the guard
Panic(c) ==
    /\ pc' = [pc EXCEPT ![c] = "panicked"]
    /\ lock' = IF lock = c THEN 0 ELSE lock
    /\ poisoned' = (poisoned \/ lock = c)

\* new_voice, first part: supported_formats().unwrap().fold(..).expect(..)
SupportedFormats(c) ==
    /\ pc[c] = "new_voice"
    /\ \/ \* the query fails: unwrap panics
          /\ Panic(c)
          /\ UNCHANGED format
       \/ \E list \in DeviceLists(endpoint[c]) :
             IF SelectFormat(list) = NoFormat
             THEN /\ Panic(c)
                  /\ UNCHANGED format
             ELSE /\ format' = [format EXCEPT ![c] = SelectFormat(list)]
                  /\ pc' = [pc EXCEPT ![c] = "voice_new"]
                  /\ UNCHANGED <<lock, poisoned>>
    /\ UNCHANGED <<thread, engine, end_points, sessions, endpoint, mixer,
                   voice_to_start, taken, cb>>
    /\ UNCHANGED foldVars

\* variant: the mixer is created before Voice::new and survives its failure
VoiceNewLeak(c) ==
    /\ pc[c] = "voice_new"
    /\ sessions' = Append(sessions, [endpoint |-> endpoint[c],
                                     format |-> format[c],
                                     feeder |-> TRUE,
                                     voice |-> "idle",
                                     inputs |-> {},
                                     creator |-> c,
                                     strong |-> 2,
                                     dropped |-> FALSE])
    /\ \/ /\ Panic(c)
          /\ UNCHANGED mixer
       \/ /\ mixer' = [mixer EXCEPT ![c] = Len(sessions) + 1]
          /\ pc' = [pc EXCEPT ![c] = "insert"]
          /\ UNCHANGED <<lock, poisoned>>
    /\ UNCHANGED <<thread, engine, end_points, endpoint, voice_to_start, format, taken, cb>>
    /\ UNCHANGED foldVars

\* new_voice, second part: Voice::new(..).unwrap(), dynamic_mixer::mixer, spawn of the closure
VoiceNew(c) ==
    /\ pc[c] = "voice_new"
    /\ \/ /\ Panic(c)
          /\ UNCHANGED <<sessions, mixer>>
       \/ /\ sessions' = Append(sessions, [endpoint |-> endpoint[c],
                                           format |-> format[c],
                                           feeder |-> TRUE,
                                           voice |-> "idle",
                                           inputs |-> {},
                                           creator |-> c,
                                           strong |-> 2,
                                           dropped |-> FALSE])
          /\ mixer' = [mixer EXCEPT ![c] = Len(sessions) + 1]
          /\ pc' = [pc EXCEPT ![c] = "insert"]
          /\ UNCHANGED <<lock, poisoned>>
    /\ UNCHANGED <<thread, engine, end_points, endpoint, voice_to_start, format, taken, cb>>
    /\ UNCHANGED foldVars

\* e.insert(Arc::downgrade(&mixer)); voice_to_start = Some(voice)
Insert(c) ==
    /\ pc[c] = "insert"
    /\ end_points' = [end_points EXCEPT ![endpoint[c]] = mixer[c]]
    /\ voice_to_start' = [voice_to_start EXCEPT ![c] = mixer[c]]
    /\ pc' = [pc EXCEPT ![c] = "unlock"]
    /\ UNCHANGED <<thread, engine, lock, poisoned, sessions, endpoint, mixer, format, taken, cb>>
    /\ UNCHANGED foldVars

\* variant: the guard outlives the block
UnlockLate(c) ==
    /\ pc[c] = "unlock"
    /\ pc' = [pc EXCEPT ![c] = "add"]
    /\ UNCHANGED <<thread, engine, lock, poisoned, end_points, sessions, endpoint, mixer,
                   voice_to_start, format, taken, cb>>
    /\ UNCHANGED foldVars

\* end of the block that owns the guard
Unlock(c) ==
    /\ pc[c] = "unlock"
    /\ lock' = 0
    /\ pc' = [pc EXCEPT ![c] = "add"]
    /\ UNCHANGED <<thread, engine, poisoned, end_points, sessions, endpoint, mixer,
                   voice_to_start, format, taken, cb>>
    /\ UNCHANGED foldVars

\* mixer.add(source)
Add(c) ==
    /\ pc[c] = "add"
    /\ sessions' = [sessions EXCEPT ![mixer[c]].inputs = @ \cup {c}]
    /\ pc' = [pc EXCEPT ![c] = "play"]
    /\ UNCHANGED <<thread, engine, lock, poisoned, end_points, endpoint, mixer,
                   voice_to_start, format, taken, cb>>
    /\ UNCHANGED foldVars

\* variant: every call starts the voice of its session
VoicePlayAlways(c) ==
    /\ pc[c] = "play"
    /\ sessions' = [sessions EXCEPT ![mixer[c]].voice = "running"]
    /\ pc' = [pc EXCEPT ![c] = "ret"]
    /\ UNCHANGED <<thread, engine, lock, poisoned, end_points, endpoint, mixer,
                   voice_to_start, format, taken, cb>>
    /\ UNCHANGED foldVars

\* variant: the voice is never started
VoicePlaySkip(c) ==
    /\ pc[c] = "play"
    /\ pc' = [pc EXCEPT ![c] = "ret"]
    /\ UNCHANGED <<thread, engine, lock, poisoned, end_points, sessions, endpoint, mixer,
                   voice_to_start, format, taken, cb>>
    /\ UNCHANGED foldVars

\* if let Some(mut voice) = voice_to_start { voice.play(); }
VoicePlay(c) ==
    /\ pc[c] = "play"
    /\ IF voice_to_start[c] # 0
       THEN sessions' = [sessions EXCEPT ![voice_to_start[c]].voice = "running"]
       ELSE UNCHANGED sessions
    /\ pc' = [pc EXCEPT ![c] = "ret"]
    /\ UNCHANGED <<thread, engine, lock, poisoned, end_points, endpoint, mixer,
                   voice_to_start, format, taken, cb>>
    /\ UNCHANGED foldVars

\* variant: the call that drops the last Arc also removes the registry entry
ReturnSweep(c) ==
    /\ pc[c] = "ret"
    /\ pc' = [pc EXCEPT ![c] = "done"]
    /\ sessions' = DropArc(sessions, mixer[c])
    /\ end_points' = IF sessions[mixer[c]].strong = 1
                      THEN [end_points EXCEPT ![endpoint[c]] = 0]
                      ELSE end_points
    /\ UNCHANGED <<thread, engine, lock, poisoned, endpoint, mixer,
                   voice_to_start, format, taken, cb>>
    /\ UNCHANGED foldVars

\* start returns: the locals `mixer` and `voice` are dropped
Return(c) ==
    /\ pc[c] = "ret"
    /\ pc' = [pc EXCEPT ![c] = "done"]
    /\ sessions' = DropArc(sessions, mixer[c])
    /\ UNCHANGED <<thread, engine, lock, poisoned, end_points, endpoint, mixer,
                   voice_to_start, format, taken, cb>>
    /\ UNCHANGED foldVars

\* ------------------------------------------------------------ the feeder
\* sources of session s that still have a sample
Active(s) == {c \in sessions[s].inputs : taken[c] < Len(SourceSamples(c))}

RECURSIVE SumNext(_)
SumNext(S) ==
    IF S = {} THEN 0
    ELSE LET c == CHOOSE x \in S : TRUE
         IN SourceSamples(c)[taken[c] + 1] + SumNext(S \ {c})

\* mixer_rx.next(): None when no source has a sample, else the sum of the sources' next samples
MixerNext(s) == IF Active(s) = {} THEN <<>> ELSE <<SumNext(Active(s))>>

\* the events loop hands a buffer of BufLen slots to the closure of session s
BufferReady(s) ==
    /\ thread \in {"rt", "normal"}
    /\ cb = NoCb
    /\ sessions[s].feeder
    /\ sessions[s].voice = "running"
    /\ cb' = [sess |-> s, enc |-> sessions[s].format.data_type, len |-> BufLen,
              out |-> <<>>, pulls |-> <<>>, srcs |-> <<>>]
    /\ UNCHANGED <<thread, engine, lock, poisoned, end_points, sessions, pc, endpoint, mixer,
                   voice_to_start, format, taken>>
    /\ UNCHANGED foldVars

\* variant: the closure takes the registry lock before it pulls
FillSlotLocked ==
    /\ cb # NoCb
    /\ Len(cb.out) < cb.len
    /\ lock = 0
    /\ LET pulled == MixerNext(cb.sess) IN
       /\ cb' = [cb EXCEPT !.out = Append(@, SlotValue(cb.enc, pulled)),
                           !.pulls = Append(@, pulled),
                           !.srcs = Append(@, Active(cb.sess))]
       /\ taken' = [c \in Calls |-> IF c \in Active(cb.sess) THEN taken[c] + 1 ELSE taken[c]]
    /\ UNCHANGED <<thread, engine, lock, poisoned, end_points, sessions, pc, endpoint, mixer,
                   voice_to_start, format>>
    /\ UNCHANGED foldVars

\* variant: a pull does not consume the samples it returns
FillSlotRepeat ==
    /\ cb # NoCb
    /\ Len(cb.out) < cb.len
    /\ LET pulled == MixerNext(cb.sess) IN
       /\ cb' = [cb EXCEPT !.out = Append(@, SlotValue(cb.enc, pulled)),
                           !.pulls = Append(@, pulled),
                           !.srcs = Append(@, Active(cb.sess))]
    /\ UNCHANGED <<thread, engine, lock, poisoned, end_points, sessions, pc, endpoint, mixer,
                   voice_to_start, format, taken>>
    /\ UNCHANGED foldVars

\* one iteration of `for d in buffer.iter_mut()`
FillSlot ==
    /\ cb # NoCb
    /\ Len(cb.out) < cb.len
    /\ LET pulled == MixerNext(cb.sess) IN
       /\ cb' = [cb EXCEPT !.out = Append(@, SlotValue(cb.enc, pulled)),
                           !.pulls = Append(@, pulled),
                           !.srcs = Append(@, Active(cb.sess))]
       /\ taken' = [c \in Calls |-> IF c \in Active(cb.sess) THEN taken[c] + 1 ELSE taken[c]]
    /\ UNCHANGED <<thread, engine, lock, poisoned, end_points, sessions, pc, endpoint, mixer,
                   voice_to_start, format>>
    /\ UNCHANGED foldVars

\* Ok(()) : the closure returns the filled buffer
CallbackReturn ==
    /\ cb # NoCb
    /\ Len(cb.out) = cb.len
    /\ cb' = NoCb
    /\ UNCHANGED <<thread, engine, lock, poisoned, end_points, sessions, pc, endpoint, mixer,
                   voice_to_start, format, taken>>
    /\ UNCHANGED foldVars

\* the device stream of session s ends: the closure and its mixer_rx are dropped
ReleaseStream(s) ==
    /\ sessions[s].feeder
    /\ cb.sess # s
    /\ sessions' = DropArc([sessions EXCEPT ![s].feeder = FALSE], s)
    /\ UNCHANGED <<thread, engine, lock, poisoned, end_points, pc, endpoint, mixer,
                   voice_to_start, format, taken, cb>>
    /\ UNCHANGED foldVars

Next ==
    \/ \E c \in Calls, e \in Endpoints : play_raw(c, e)
    \/ max_thread_priority
    \/ \E c \in Calls : Lock(c)
    \/ \E c \in Calls : Entry(c)
    \/ \E c \in Calls : SupportedFormats(c)
    \/ \E c \in Calls : VoiceNew(c)
    \/ \E c \in Calls : Insert(c)
    \/ \E c \in Calls : Unlock(c)
    \/ \E c \in Calls : Add(c)
    \/ \E c \in Calls : VoicePlay(c)
    \/ \E c \in Calls : Return(c)
    \/ \E s \in Sessions : BufferReady(s)
    \/ FillSlot
    \/ CallbackReturn
    \/ \E s \in Sessions : ReleaseStream(s)

Spec == Init /\ [][Next]_vars

\* the steps of the thread that runs call c
CallStep(c) ==
    \/ Lock(c) \/ Entry(c) \/ SupportedFormats(c) \/ VoiceNew(c) \/ Insert(c)
    \/ Unlock(c) \/ Add(c) \/ VoicePlay(c) \/ Return(c)

\* every calling thread keeps being scheduled
FairSpec == Init /\ [][Next]_vars /\ \A c \in Calls : WF_vars(CallStep(c))


\* ------------------------------------------------------- the format fold
FormatLists == UNION {[1..n -> Format] : n \in 0..MaxFormats}

InitFold ==
    /\ EngineInit
    /\ supported \in FormatLists
    /\ acc = NoFormat
    /\ folded = 0
    /\ fold_pc = "fold"

\* fold hands the next candidate to the closure
FoldStep ==
    /\ fold_pc = "fold"
    /\ folded < Len(supported)
    /\ acc' = FoldFn(acc, supported[folded + 1])
    /\ folded' = folded + 1
    /\ UNCHANGED <<supported, fold_pc>>
    /\ UNCHANGED engineVars

\* .expect("The endpoint doesn't support any format!?")
Expect ==
    /\ fold_pc = "fold"
    /\ folded = Len(supported)
    /\ fold_pc' = IF acc = NoFormat THEN "panicked" ELSE "done"
    /\ UNCHANGED <<supported, acc, folded>>
    /\ UNCHANGED engineVars

NextFold == FoldStep \/ Expect

SpecFold == InitFold /\ [][NextFold]_vars


\* ======================================================== properties
\* calls that hold the local `mixer` (a strong Arc)
Holding == {"insert", "unlock", "add", "play", "ret"}

\* positions inside the block that owns the guard
InBlock == {"entry", "new_voice", "voice_new", "insert", "unlock"}

\* sessions of endpoint e that have not been destroyed
Live(e) == {s \in Sessions : sessions[s].endpoint = e /\ ~sessions[s].dropped}

\* call c created its session after finding an entry that did not upgrade
TookStaleBranch(c) ==
    /\ mixer[c] # 0
    /\ sessions[mixer[c]].creator = c
    /\ \E t \in Sessions : t < mixer[c] /\ sessions[t].endpoint = endpoint[c]

\* C1: while an endpoint's session is strongly referenced no second session
\* (and no second voice) is created for it: at most one session per endpoint
\* is alive at any time, every call past the lookup holds exactly that
\* session, the one the registry names, and its source ends up on it.
OneSessionPerEndpoint ==
    /\ \A e \in Endpoints : Cardinality(Live(e)) <= 1
    /\ \A c \in Calls :
        /\ pc[c] \in Holding => mixer[c] \in Live(endpoint[c])
        /\ pc[c] \in {"unlock", "add", "play", "ret"} => end_points[endpoint[c]] = mixer[c]
        /\ pc[c] \in {"play", "ret", "done"} => c \in sessions[mixer[c]].inputs
    /\ \A s \in Sessions : \A c \in sessions[s].inputs : mixer[c] = s

\* C1 witness: two calls on one endpoint raced, one created the session and
\* both are registering their source on it.
C1Witness ==
    \E c1, c2 \in Calls :
        /\ c1 # c2
        /\ endpoint[c1] = endpoint[c2]
        /\ pc[c1] = "add" /\ pc[c2] = "add"
        /\ mixer[c1] = mixer[c2]
        /\ voice_to_start[c1] # 0 /\ voice_to_start[c2] = 0
        /\ Len(sessions) = 1

\* C2: a call that finds an entry whose Weak no longer upgrades creates a new
\* mixer and voice, overwrites the entry with the new session, adds its
\* source to the new session only and starts the new voice; no call ever
\* holds or feeds a destroyed session.
StaleEntryReplaced ==
    /\ \A c \in Calls :
        /\ pc[c] \in Holding => ~sessions[mixer[c]].dropped
        /\ TookStaleBranch(c) =>
            /\ pc[c] = "insert" =>
                  /\ end_points[endpoint[c]] # mixer[c]
                  /\ sessions[end_points[endpoint[c]]].dropped
                  /\ sessions[mixer[c]].inputs = {}
            /\ pc[c] \in {"unlock", "add", "play", "ret"} =>
                  /\ end_points[endpoint[c]] = mixer[c]
                  /\ voice_to_start[c] = mixer[c]
            /\ pc[c] \in {"play", "ret", "done"} => c \in sessions[mixer[c]].inputs
            /\ pc[c] \in {"ret", "done"} => sessions[mixer[c]].voice = "running"
    /\ \A s \in Sessions : \A c \in sessions[s].inputs : mixer[c] = s
    /\ \A s \in Sessions : sessions[s].dropped => sessions[s].strong = 0

\* C2 witness: a call has returned after replacing a dead entry: an earlier
\* session of its endpoint is destroyed, the registry names the new one, the
\* source is on it and its voice runs.
C2Witness ==
    \E c \in Calls :
        /\ pc[c] = "done"
        /\ TookStaleBranch(c)
        /\ \E t \in Sessions : t < mixer[c] /\ sessions[t].endpoint = endpoint[c]
                               /\ sessions[t].dropped
        /\ end_points[endpoint[c]] = mixer[c]
        /\ c \in sessions[mixer[c]].inputs
        /\ sessions[mixer[c]].voice = "running"

\* C3: no play_raw call panics: every call returns normally, also when the
\* endpoint reports no format, the format query fails or Voice::new fails.
NoFailureCrossesPlay == \A c \in Calls : pc[c] # "panicked"

\* C9 as stated: no call performs the format query or the stream creation
\* while holding the registry lock, and no call waits for the lock while a
\* call for another endpoint is setting up its device.
LockOnlyForMapOps ==
    /\ \A c \in Calls : pc[c] \in {"new_voice", "voice_new"} => lock # c
    /\ \A c1, c2 \in Calls :
          ~(/\ pc[c1] = "lock"
            /\ lock = c2
            /\ pc[c2] \in {"new_voice", "voice_new"}
            /\ endpoint[c1] # endpoint[c2])

\* C9 amended: the lock is held from the lookup to the end of the block,
\* which on a missing or stale entry includes the format query and the
\* stream creation of new_voice; it is held by no call that is registering
\* its source, starting its voice or has returned, and a call inside the
\* block always holds it.
LockSpansDeviceSetup ==
    /\ lock # 0 => pc[lock] \in InBlock
    /\ \A c \in Calls : pc[c] \in InBlock => lock = c
    /\ poisoned => \E c \in Calls : pc[c] = "panicked"

\* C9 witness: a call is creating its device stream with the lock held while
\* a call for another endpoint waits for the lock.
C9Witness ==
    \E c1, c2 \in Calls :
        /\ endpoint[c1] # endpoint[c2]
        /\ pc[c1] = "voice_new" /\ lock = c1
        /\ pc[c2] = "lock"

\* C10: the lock is released before mixer.add and voice.play: a call that is
\* adding its source, starting its voice or returning does not hold it.
AddOutsideLock ==
    \A c \in Calls : pc[c] \in {"add", "play", "ret", "done"} => lock # c

\* C10 witness: a call for another endpoint holds the lock while a source
\* registration is still in progress.
C10Witness ==
    \E c1, c2 \in Calls :
        /\ endpoint[c1] # endpoint[c2]
        /\ pc[c1] = "add"
        /\ lock = c2 /\ pc[c2] \in InBlock


\* ------------------------------------------------- the fold's properties
IsFloat(f) == f.data_type = F32
RateOk(f) == f.samples_rate >= 44100
Stereo(f) == f.channels = 2

\* f and g tie on the three criteria
Tie(f, g) ==
    /\ IsFloat(f) = IsFloat(g)
    /\ RateOk(f) = RateOk(g)
    /\ Stereo(f) = Stereo(g)

\* g meets a criterion that f fails
Improves(g, f) ==
    \/ IsFloat(g) /\ ~IsFloat(f)
    \/ RateOk(g) /\ ~RateOk(f)
    \/ Stereo(g) /\ ~Stereo(f)

Indices == 1..Len(supported)

\* the orderings of the supported list
Orderings ==
    {[i \in Indices |-> supported[p[i]]] :
        p \in {q \in [Indices -> Indices] : \A i, j \in Indices : q[i] = q[j] => i = j}}

\* C4: when the list holds an F32 format the fold selects an F32 format.
FloatDominates ==
    (fold_pc = "done" /\ \E i \in Indices : IsFloat(supported[i])) => IsFloat(acc)

\* C5: when all candidates share one encoding and one of them has a rate of
\* at least 44100 Hz, the selected format has a rate of at least 44100 Hz.
RateOutranksChannels ==
    (/\ fold_pc = "done"
     /\ \A i, j \in Indices : supported[i].data_type = supported[j].data_type
     /\ \E i \in Indices : RateOk(supported[i]))
    => RateOk(acc)

\* C6: the formats selected for two orderings of one list are identical or
\* tie on the three criteria.
OrderOnlyBreaksTies ==
    fold_pc = "done" =>
        \A l \in Orderings : SelectFormat(l) = acc \/ Tie(SelectFormat(l), acc)

\* C7: the fold replaces its current choice only by a candidate that meets a
\* criterion the choice fails, so a list whose candidates all tie yields
\* its first candidate.
FirstSeenWinsTies ==
    /\ [][(fold_pc = "fold" /\ acc # NoFormat /\ acc' # acc) => Improves(acc', acc)]_vars
    /\ []((fold_pc = "done" /\ \A i, j \in Indices : Tie(supported[i], supported[j]))
             => acc = supported[1])

\* ----------------------------------------------- the feeder's properties
\* silence of an encoding: what a sample of 0.0 converts to
Silence(enc) == IF enc = U16 THEN 32768 ELSE 0

\* a sample converted to an encoding
Converted(enc, v) == IF enc = U16 THEN to_u16(v) ELSE IF enc = I16 THEN to_i16(v) ELSE v

\* C8: every slot written by the closure holds the converted sample when one
\* was pulled and the silence value of the buffer's encoding when none was,
\* and the closure returns only after writing every slot.
UnderrunWritesSilence ==
    cb # NoCb =>
        /\ Len(cb.pulls) = Len(cb.out)
        /\ \A j \in 1..Len(cb.out) :
              cb.out[j] = IF cb.pulls[j] = <<>> THEN Silence(cb.enc)
                          ELSE Converted(cb.enc, cb.pulls[j][1])


\* C11: under fair scheduling of the calls, a call whose new_voice returned
\* or whose upgrade succeeded gets its source on the session and the
\* session's voice gets started, also when the call reuses a session whose
\* creator has not started the voice yet.
SourceEventuallyPlays ==
    \A c \in Calls :
        (pc[c] \in {"insert", "unlock"}) ~>
            (/\ mixer[c] # 0
             /\ c \in sessions[mixer[c]].inputs
             /\ sessions[mixer[c]].voice = "running")

\* C11 witness: a reusing call has registered its source and returned while
\* the creating call has not started the voice yet.
C11Witness ==
    \E c1, c2 \in Calls :
        /\ c1 # c2
        /\ mixer[c1] # 0 /\ mixer[c1] = mixer[c2]
        /\ voice_to_start[c1] = mixer[c1]
        /\ pc[c1] \in {"add", "play"}
        /\ pc[c2] = "done"
        /\ c2 \in sessions[mixer[c2]].inputs
        /\ sessions[mixer[c2]].voice = "idle"


\* C12: a failed spawn of the background thread (or a failed priority
\* elevation) is not fatal: ENGINE is initialised either way, no call panics
\* unless a device setup failed, a returned call has its source on its
\* session, no buffer is ever handed to a closure while the thread is
\* missing, and a thread without elevated priority still dispatches buffers.
ThreadFailureNotFatal ==
    /\ (engine = "ready") = (thread # "unspawned")
    /\ thread \in {"unspawned", "failed", "spawned"} =>
          (cb = NoCb /\ \A c \in Calls : taken[c] = 0)
    /\ \A c \in Calls :
          /\ pc[c] = "panicked" => poisoned
          /\ pc[c] = "done" => (mixer[c] # 0 /\ c \in sessions[mixer[c]].inputs)
    /\ (/\ thread \in {"rt", "normal"}
        /\ cb = NoCb
        /\ \E s \in Sessions : sessions[s].feeder /\ sessions[s].voice = "running")
       => ENABLED (\E s \in Sessions : BufferReady(s))

\* C12 witness: the thread could not be spawned and a call has returned
\* with its source registered and its voice started.
C12Witness ==
    /\ thread = "failed"
    /\ \E c \in Calls :
          /\ pc[c] = "done"
          /\ c \in sessions[mixer[c]].inputs
          /\ sessions[mixer[c]].voice = "running"


\* index of the sample of source c that went into slot j of the buffer being filled
SampleIndex(c, j) ==
    taken[c] - Cardinality({k \in j..Len(cb.srcs) : c \in cb.srcs[k]}) + 1

RECURSIVE SumAt(_, _)
SumAt(S, j) ==
    IF S = {} THEN 0
    ELSE LET c == CHOOSE x \in S : TRUE
         IN SourceSamples(c)[SampleIndex(c, j)] + SumAt(S \ {c}, j)

\* C13 as stated: with two sources registered on the session, the slot that
\* carries sample i of one of them holds s1[i] + s2[i], whenever the second
\* source was added.
MixIsSumOfBoth ==
    cb # NoCb =>
        \A c1, c2 \in sessions[cb.sess].inputs :
            (c1 # c2 /\ Cardinality(sessions[cb.sess].inputs) = 2) =>
                \A j \in 1..Len(cb.out) :
                    c1 \in cb.srcs[j] =>
                        cb.out[j] = Converted(cb.enc,
                                        SourceSamples(c1)[SampleIndex(c1, j)]
                                        + SourceSamples(c2)[SampleIndex(c1, j)])

\* C13 amended: every slot holds the sum of the next samples of the sources
\* that were registered and not exhausted when the slot was pulled; it is
\* s1[i] + s2[i] where both sources are at the same index i at that pull.
MixIsSumOfRegistered ==
    cb # NoCb =>
        \A j \in 1..Len(cb.out) :
            /\ cb.srcs[j] \subseteq sessions[cb.sess].inputs
            /\ cb.srcs[j] # {} => cb.out[j] = Converted(cb.enc, SumAt(cb.srcs[j], j))
            /\ \A c1, c2 \in Calls :
                  (/\ cb.srcs[j] = {c1, c2}
                   /\ c1 # c2
                   /\ SampleIndex(c1, j) = SampleIndex(c2, j))
                  => cb.out[j] = Converted(cb.enc,
                                     SourceSamples(c1)[SampleIndex(c1, j)]
                                     + SourceSamples(c2)[SampleIndex(c1, j)])

\* C13 witness: a buffer whose two slots each mixed both sources at the same
\* index, both sources now being exhausted.
C13Witness ==
    /\ cb # NoCb
    /\ Len(cb.out) = 2
    /\ \E c1, c2 \in Calls :
          /\ c1 # c2
          /\ cb.srcs[1] = {c1, c2} /\ cb.srcs[2] = {c1, c2}
          /\ taken[c1] = 2 /\ taken[c2] = 2


\* C14: the registry stores Weak handles and is never swept: a session's
\* strong count is made of the closure's Arc and the calls' locals only, a
\* key once inserted is never removed, and an entry changes only when a call
\* on that endpoint inserts a new session over a missing or dead one.
RegistryWeakNeverSwept ==
    /\ [](\A s \in Sessions :
             /\ sessions[s].strong =
                   (IF sessions[s].feeder THEN 1 ELSE 0)
                   + Cardinality({c \in Calls : mixer[c] = s /\ pc[c] \in Holding})
             /\ sessions[s].dropped = (sessions[s].strong = 0))
    /\ [][\A e \in Endpoints :
             /\ end_points[e] # 0 => end_points'[e] # 0
             /\ end_points'[e] # end_points[e] =>
                   /\ end_points[e] = 0 \/ sessions[end_points[e]].dropped
                   /\ \E c \in Calls :
                         /\ endpoint[c] = e
                         /\ pc[c] = "insert" /\ pc'[c] = "unlock"
                         /\ end_points'[e] = mixer[c]]_vars

\* C14 witness: every strong reference to a session is gone and the registry
\* still holds its dead entry.
C14Witness ==
    \E e \in Endpoints :
        /\ end_points[e] # 0
        /\ sessions[end_points[e]].dropped
        /\ sessions[end_points[e]].strong = 0
        /\ \A c \in Calls : pc[c] \in {"idle", "done"}


\* C15: a voice is created idle, is started once, by the call that created
\* it and after that call added its own source, and stays running; a call
\* that reuses a session has no voice to start.
VoiceStartedOnceByCreator ==
    /\ [](\A c \in Calls :
             voice_to_start[c] # 0 =>
                (voice_to_start[c] = mixer[c] /\ sessions[mixer[c]].creator = c))
    /\ [](\A s \in Sessions :
             (sessions[s].voice = "idle") =
                (pc[sessions[s].creator] \in {"insert", "unlock", "add", "play"}
                 /\ mixer[sessions[s].creator] = s))
    /\ [][\A s \in Sessions :
             /\ sessions[s].voice = "running" => sessions'[s].voice = "running"
             /\ (sessions[s].voice = "idle" /\ sessions'[s].voice = "running") =>
                   /\ pc[sessions[s].creator] = "play"
                   /\ pc'[sessions[s].creator] = "ret"
                   /\ voice_to_start[sessions[s].creator] = s
                   /\ sessions[s].creator \in sessions[s].inputs]_vars
    /\ [][Len(sessions') > Len(sessions) =>
             sessions'[Len(sessions')].voice = "idle"]_vars

\* C15 witness: a voice runs after its creator returned, and a call that
\* reused the session returned without a voice to start.
C15Witness ==
    \E c1, c2 \in Calls :
        /\ c1 # c2
        /\ pc[c1] = "done" /\ pc[c2] = "done"
        /\ mixer[c1] # 0 /\ mixer[c1] = mixer[c2]
        /\ voice_to_start[c1] = mixer[c1]
        /\ voice_to_start[c2] = 0
        /\ sessions[mixer[c1]].voice = "running"


\* C16: a buffer-ready callback never waits: while it runs its next step is
\* always possible whatever the calls are doing, it pulls once per slot and
\* writes the slots one after the other, each once, it returns only when the
\* BufLen slots are written, and it touches neither the registry lock nor
\* any call.
FeederNeverWaits ==
    /\ [](cb # NoCb =>
             /\ Len(cb.out) = Len(cb.pulls)
             /\ Len(cb.out) <= cb.len
             /\ cb.len = BufLen
             /\ ENABLED (FillSlot \/ CallbackReturn))
    /\ [][(cb # NoCb /\ cb' # cb) =>
             /\ lock' = lock /\ poisoned' = poisoned /\ pc' = pc
             /\ end_points' = end_points /\ sessions' = sessions
             /\ cb' = NoCb => Len(cb.pulls) = cb.len
             /\ cb' # NoCb =>
                   /\ Len(cb'.out) = Len(cb.out) + 1
                   /\ Len(cb'.pulls) = Len(cb.pulls) + 1
                   /\ SubSeq(cb'.out, 1, Len(cb.out)) = cb.out]_vars

\* C16 witness: a callback is in the middle of its buffer while a call is
\* about to add its source to the session being fed.
C16Witness ==
    /\ cb # NoCb
    /\ Len(cb.out) >= 1 /\ Len(cb.out) < cb.len
    /\ \E c \in Calls : pc[c] = "add" /\ mixer[c] = cb.sess


RECURSIVE SumTaken(_, _)
\* sum of the samples of the sources in S at the positions given by t
SumTaken(S, t) ==
    IF S = {} THEN 0
    ELSE LET c == CHOOSE x \in S : TRUE
         IN SourceSamples(c)[t[c]] + SumTaken(S \ {c}, t)

\* C17: samples reach the buffers in order and exactly once: only a slot
\* write consumes samples, it takes the next sample of each source it mixes
\* and of no other, the slot holds their converted sum, a slot written
\* without a sample consumes nothing, and a source feeds one session only.
InOrderExactlyOnce ==
    /\ [](\A s, t \in Sessions :
             s # t => sessions[s].inputs \cap sessions[t].inputs = {})
    /\ [][LET adv == {c \in Calls : taken'[c] # taken[c]} IN
             /\ \A c \in adv : taken'[c] = taken[c] + 1
                               /\ taken'[c] <= Len(SourceSamples(c))
             /\ adv # {} => (cb # NoCb /\ cb' # NoCb /\ Len(cb'.out) = Len(cb.out) + 1)
             /\ (cb # NoCb /\ cb' # NoCb /\ cb' # cb) =>
                   /\ adv \subseteq sessions[cb.sess].inputs
                   /\ adv = {c \in sessions[cb.sess].inputs :
                                taken[c] < Len(SourceSamples(c))}
                   /\ cb'.pulls[Len(cb'.pulls)] =
                         (IF adv = {} THEN <<>> ELSE <<SumTaken(adv, taken')>>)
                   /\ adv # {} =>
                         cb'.out[Len(cb'.out)] = Converted(cb.enc, SumTaken(adv, taken'))]_vars

\* C17 witness: a buffer whose first slot got the last sample of a source
\* and whose second slot found the output empty.
C17Witness ==
    /\ cb # NoCb
    /\ Len(cb.pulls) = 2
    /\ cb.pulls[1] # <<>>
    /\ cb.pulls[2] = <<>>
    /\ \E c \in sessions[cb.sess].inputs : taken[c] = Len(SourceSamples(c))


\* C18: a device-setup failure of one call leaves the registry usable: every
\* call that waits for the lock acquires it and goes on to the lookup.
RegistrySurvivesSetupFailure ==
    [][\A c \in Calls : pc[c] = "lock" => pc'[c] \in {"lock", "entry"}]_vars

\* C19: a call whose new_voice fails leaves no trace: the failing step
\* changes neither the map nor the sessions, the map is untouched from the
\* lookup to the failure (a missing key stays missing, a dead entry stays),
\* and the call has no mixer, no voice to start and no source on any session.
FailedSetupChangesNothing ==
    /\ [](\A c \in Calls :
             /\ pc[c] = "panicked" =>
                   /\ mixer[c] = 0
                   /\ voice_to_start[c] = 0
                   /\ \A s \in Sessions :
                         c \notin sessions[s].inputs /\ sessions[s].creator # c
             /\ pc[c] \in {"new_voice", "voice_new"} =>
                   \/ end_points[endpoint[c]] = 0
                   \/ sessions[end_points[endpoint[c]]].dropped)
    /\ [][\A c \in Calls :
             /\ pc[c] \in {"entry", "new_voice", "voice_new"} => end_points' = end_points
             /\ (pc[c] \in {"new_voice", "voice_new"} /\ pc'[c] = "panicked") =>
                   /\ sessions' = sessions
                   /\ mixer' = mixer
                   /\ voice_to_start' = voice_to_start]_vars

\* C19 witness: Voice::new failed for a call that had found a dead entry,
\* and the dead entry is still in the map.
C19Witness ==
    \E c \in Calls :
        /\ pc[c] = "panicked"
        /\ format[c] # NoFormat
        /\ end_points[endpoint[c]] # 0
        /\ sessions[end_points[endpoint[c]]].dropped

====
